---- MODULE Spec2Model ----
(***************************************************************************)
(* SEPA mandates and payment groups of trytond account_payment_sepa.       *)
(*                                                                         *)
(* State: the mandate table (account.payment.sepa.mandate), the            *)
(* sepa_mandate column of the payments, one payment group with its         *)
(* journal's flavors and its sepa_message, and the outcome of the last     *)
(* call.  Text is a sequence of code points, bytes are numbers 0..255.     *)
(* Flavors, states, types and error names are strings; the string "None"   *)
(* stands for Python's None where the code formats it with '%s'.           *)
(***************************************************************************)
EXTENDS Integers, Sequences, FiniteSets, TLC

VARIABLES
    next_id,                \* next id the mandate table hands out
    mandate,                \* live mandate id -> record of its fields
    payment_party,          \* payment id -> Payment.party
    sepa_mandate,           \* payment id -> mandate id, or None
    kind,                   \* Group.kind
    sepa_payable_flavor,    \* Journal.sepa_payable_flavor of the group's journal
    sepa_receivable_flavor, \* Journal.sepa_receivable_flavor
    sepa_message,           \* Group.sepa_message
    error,                  \* name of the error the last call raised, "" if none
    error_arg,              \* the record the error message names, None if none
    written                 \* the payments the last call wrote a mandate to

vars == <<next_id, mandate, payment_party, sepa_mandate, kind, sepa_payable_flavor,
          sepa_receivable_flavor, sepa_message, error, error_arg, written>>

-----------------------------------------------------------------------------
(* Bounds *)

MaxMandates == 2
MaxPayments == 2

(* None as a record reference or a date: sepa_mandate of a payment without *)
(* mandate, an empty account_number or signature_date of a mandate.  An    *)
(* empty text (None or '') is the empty sequence.                          *)
None == 0

MandateIds == 1..MaxMandates
Payments == 1..MaxPayments

(* The parties of the payments of a group: all of party 1, or alternating  *)
(* between party 1 and party 2, starting with either.                      *)
AllOfOne == [p \in Payments |-> 1]
OneFirst == [p \in Payments |-> IF p % 2 = 1 THEN 1 ELSE 2]
TwoFirst == [p \in Payments |-> IF p % 2 = 1 THEN 2 ELSE 1]

(* The party a mandate is entered for: every third mandate is of party 2,  *)
(* the others are of party 1.                                              *)
MandateParty(m) == IF m % 3 = 0 THEN 2 ELSE 1

(* Group.payments: the payments of the group, in id order.                 *)
GroupPayments == [i \in Payments |-> i]

(* Group.rec_name: the display name of the group, "G1".                    *)
rec_name == <<71, 49>>

(* What the template renders to: "<é€𐍈/>", with characters of 1, 2, 3 and *)
(* 4 bytes.                                                                *)
RenderedMessages == { <<60, 233, 8364, 66376, 47, 62>> }

-----------------------------------------------------------------------------
(* Mandate: fields, workflow table, derived properties *)

Types == {"recurrent", "one-off"}

default_state == "draft"
default_type == "recurrent"

(* The table with a way back from canceled.                                *)
transitions_reopen ==
    { <<"draft", "requested">>,
      <<"requested", "validated">>,
      <<"validated", "canceled">>,
      <<"requested", "canceled">>,
      <<"requested", "draft">>,
      <<"canceled", "draft">> }

transitions ==
    { <<"draft", "requested">>,
      <<"requested", "validated">>,
      <<"validated", "canceled">>,
      <<"requested", "canceled">>,
      <<"requested", "draft">> }

Live == DOMAIN mandate

(* states={'required': Eval('state') == 'validated'} of account_number,    *)
(* identification and signature_date.                                      *)
required_account_number(rec) == rec.state = "validated"
required_identification(rec) == rec.state = "validated"
(* A field that is never required.                                         *)
never_required(rec) == FALSE

required_signature_date(rec) == rec.state = "validated"

(* The validation every create and write ends with: a field whose          *)
(* 'required' state evaluates to true must hold a value.  The 'readonly'   *)
(* states are applied by the client's form and are not validated on write. *)
validate(rec) ==
    /\ required_account_number(rec) => rec.account_number # None
    /\ required_identification(rec) => rec.identification # <<>>
    /\ required_signature_date(rec) => rec.signature_date # None

(* Mandate.payments: the payments whose sepa_mandate is m.                 *)
payments_of(m) == { p \in Payments : sepa_mandate[p] = m }

(* has_payments as the value of the Function field: a payment links to the *)
(* mandate.                                                                *)
has_payments_field(m) == \E p \in Payments : sepa_mandate[p] = m

(* self.has_payments as is_valid reads it.  The class body binds the name  *)
(* has_payments to the Function field and, further down, to the getter     *)
(* classmethod; the later binding is the attribute of the class, so the    *)
(* model has no field of that name and the value read is the bound method, *)
(* which is true as a condition whatever payments there are.               *)
has_payments(m) == TRUE

is_valid(m) ==
    IF mandate[m].state = "validated"
    THEN IF mandate[m].type = "one-off"
         THEN IF ~has_payments(m) THEN TRUE ELSE FALSE
         ELSE TRUE
    ELSE FALSE

(* sequence_type with FRST for every mandate that has payments.            *)
sequence_type_first(m) ==
    IF mandate[m].type = "one-off" THEN "OOFF"
    ELSE IF Cardinality(payments_of(m)) >= 1 THEN "FRST"
    ELSE "RCUR"

sequence_type(m) ==
    IF mandate[m].type = "one-off" THEN "OOFF"
    ELSE IF Cardinality(payments_of(m)) = 1 THEN "FRST"
    ELSE "RCUR"

-----------------------------------------------------------------------------
(* Mandate operations *)

(* A call that is not the processing of the group.                         *)
GroupUnchanged ==
    /\ UNCHANGED <<payment_party, kind, sepa_payable_flavor,
                   sepa_receivable_flavor, sepa_message>>
    /\ written' = {}

Ok == error' = "" /\ error_arg' = None

(* Mandate.create with the default state; the new record gets the next id. *)
create(party, type, account_number, identification, signature_date) ==
    LET rec == [party |-> party, type |-> type, state |-> default_state,
                account_number |-> account_number,
                identification |-> identification,
                signature_date |-> signature_date]
    IN /\ next_id <= MaxMandates
       /\ validate(rec)
       /\ mandate' = [m \in Live \cup {next_id} |->
                         IF m = next_id THEN rec ELSE mandate[m]]
       /\ next_id' = next_id + 1
       /\ Ok
       /\ UNCHANGED sepa_mandate
       /\ GroupUnchanged

(* Mandate.write of one field of one mandate, then the validation.         *)
write(m, field, value) ==
    LET rec == [mandate[m] EXCEPT ![field] = value]
    IN /\ m \in Live
       /\ IF validate(rec)
          THEN mandate' = [mandate EXCEPT ![m] = rec] /\ Ok
          ELSE /\ error' = "required_validation"
               /\ error_arg' = None
               /\ UNCHANGED mandate
       /\ UNCHANGED <<next_id, sepa_mandate>>
       /\ GroupUnchanged

(* Workflow.transition(state): a record whose (current, target) pair is    *)
(* not in the table is skipped; the others are written, then validated.    *)
transition(m, state) ==
    LET rec == [mandate[m] EXCEPT !.state = state]
    IN /\ m \in Live
       /\ IF <<mandate[m].state, state>> \in transitions
          THEN IF validate(rec)
               THEN mandate' = [mandate EXCEPT ![m] = rec] /\ Ok
               ELSE /\ error' = "required_validation"
                    /\ error_arg' = None
                    /\ UNCHANGED mandate
          ELSE UNCHANGED mandate /\ Ok
       /\ UNCHANGED <<next_id, sepa_mandate>>
       /\ GroupUnchanged

draft(m) == transition(m, "draft")
request(m) == transition(m, "requested")
validate_mandate(m) == transition(m, "validated")
cancel(m) == transition(m, "canceled")

(* The state test of delete with requested among the states to delete in.  *)
first_validated(ms) ==
    LET bad == { m \in ms : mandate[m].state = "validated" }
    IN IF bad = {} THEN None
       ELSE CHOOSE m \in bad : \A o \in bad : m <= o

(* The first mandate of the list, in id order, that may not be deleted.    *)
first_not_deletable(ms) ==
    LET bad == { m \in ms : mandate[m].state \notin {"draft", "canceled"} }
    IN IF bad = {} THEN None
       ELSE CHOOSE m \in bad : \A o \in bad : m <= o

(* ondelete='RESTRICT' of Payment.sepa_mandate.                            *)
restricted(ms) == \E p \in Payments : sepa_mandate[p] \in ms

(* Mandate.delete(mandates).                                               *)
delete(ms) ==
    /\ ms # {}
    /\ ms \subseteq Live
    /\ IF first_not_deletable(ms) # None
       THEN /\ error' = "delete_draft_canceled"
            /\ error_arg' = first_not_deletable(ms)
            /\ UNCHANGED mandate
       ELSE IF restricted(ms)
       THEN /\ error' = "foreign_key_restrict"
            /\ error_arg' = None
            /\ UNCHANGED mandate
       ELSE /\ mandate' = [m \in Live \ ms |-> mandate[m]]
            /\ Ok
    /\ UNCHANGED <<next_id, sepa_mandate>>
    /\ GroupUnchanged

(* Payment.write of sepa_mandate: the domain lets only a mandate of the    *)
(* payment's party, or None, be chosen.                                    *)
write_sepa_mandate(p, m) ==
    /\ m # None => m \in Live /\ mandate[m].party = payment_party[p]
    /\ sepa_mandate[p] # m
    /\ sepa_mandate' = [sepa_mandate EXCEPT ![p] = m]
    /\ Ok
    /\ UNCHANGED <<next_id, mandate>>
    /\ GroupUnchanged

-----------------------------------------------------------------------------
(* Group: templates, processing, export accessors *)

(* The files of the template directory the loader reads.                   *)
TemplateFiles ==
    { "pain.001.001.03.xml", "pain.001.001.05.xml",
      "pain.008.001.02.xml", "pain.008.001.04.xml" }

(* loader.load(filename): the template of that file; a file that is not in *)
(* the directory raises TemplateNotFound (it never returns None).          *)
loader_load(filename) ==
    IF filename \in TemplateFiles
    THEN [raised |-> "", tmpl |-> filename]
    ELSE [raised |-> "TemplateNotFound", tmpl |-> "None"]

(* '%s.xml' % flavor; a flavor that is not set formats as "None".          *)
template_filename(flavor) == flavor \o ".xml"

get_sepa_template ==
    IF kind = "payable"
    THEN loader_load(template_filename(sepa_payable_flavor))
    ELSE IF kind = "receivable"
    THEN loader_load(template_filename(sepa_receivable_flavor))
    ELSE [raised |-> "", tmpl |-> "None"]

(* party.sepa_mandates: the party's mandates, in id order.                 *)
RECURSIVE sorted(_)
sorted(S) ==
    IF S = {} THEN <<>>
    ELSE LET lo == CHOOSE x \in S : \A y \in S : x <= y
         IN <<lo>> \o sorted(S \ {lo})

sepa_mandates(party) == sorted({ m \in Live : mandate[m].party = party })

(* for mandate in ...: if mandate.is_valid: break / else: mandate = None   *)
RECURSIVE scan(_, _)
scan(ms, i) ==
    IF i > Len(ms) THEN None
    ELSE IF is_valid(ms[i]) THEN ms[i]
    ELSE scan(ms, i + 1)

(* get_sepa_mandates with the scan keeping the last valid mandate.         *)
get_sepa_mandates_last(payments) ==
    [i \in 1..Len(payments) |->
        LET valid == { m \in Live : /\ mandate[m].party = payment_party[payments[i]]
                                    /\ is_valid(m) }
        IN IF valid = {} THEN None
           ELSE CHOOSE m \in valid : \A o \in valid : o <= m]

(* Payment.get_sepa_mandates(payments): one mandate or None per payment,   *)
(* all of them looked up before anything is written.                       *)
get_sepa_mandates(payments) ==
    [i \in 1..Len(payments) |-> scan(sepa_mandates(payment_party[payments[i]]), 1)]

(* [p for p in self.payments if not p.sepa_mandate]                        *)
without_mandate == SelectSeq(GroupPayments, LAMBDA p : sepa_mandate[p] = None)

(* The loop that goes on after a payment without mandate.                  *)
never_raises(mandates) == Len(mandates) + 1

(* if not mandate: raise.  The place in the list at which the loop raises, *)
(* one past the end of the list if it does not.                            *)
raises_at(mandates) ==
    LET failing == { i \in 1..Len(mandates) : mandates[i] = None }
    IN IF failing = {} THEN Len(mandates) + 1
       ELSE CHOOSE i \in failing : \A j \in failing : i <= j

(* Group.process_sepa().  The loop writes payment after payment and stops  *)
(* at the first one without mandate; what it wrote before stays written.   *)
process_sepa ==
    LET payments == IF kind = "receivable" THEN without_mandate ELSE <<>>
        mandates == get_sepa_mandates(payments)
        stop     == raises_at(mandates)
        after    == [p \in Payments |->
                        IF \E i \in 1..(stop - 1) : payments[i] = p
                        THEN mandates[CHOOSE i \in 1..(stop - 1) : payments[i] = p]
                        ELSE sepa_mandate[p]]
        tmpl     == get_sepa_template
    IN /\ sepa_mandate' = after
       /\ written' = { payments[i] : i \in 1..(stop - 1) }
       /\ IF stop <= Len(payments)
          THEN /\ error' = "no_mandate"
               /\ error_arg' = payments[stop]
               /\ UNCHANGED sepa_message
          ELSE IF tmpl.raised # ""
          THEN /\ error' = tmpl.raised
               /\ error_arg' = None
               /\ UNCHANGED sepa_message
          ELSE IF tmpl.tmpl = "None"
          THEN /\ error' = "NotImplementedError"
               /\ error_arg' = None
               /\ UNCHANGED sepa_message
          ELSE /\ sepa_message' \in RenderedMessages
               /\ Ok
       /\ UNCHANGED <<next_id, mandate, payment_party, kind, sepa_payable_flavor,
                      sepa_receivable_flavor>>

(* The encoding of a code point as one byte.                               *)
encode_char_byte(c) == <<c % 256>>

(* unicode.encode('utf-8') of one code point.                              *)
encode_char(c) ==
    IF c < 128 THEN <<c>>
    ELSE IF c < 2048 THEN <<192 + (c \div 64), 128 + (c % 64)>>
    ELSE IF c < 65536
    THEN <<224 + (c \div 4096), 128 + ((c \div 64) % 64), 128 + (c % 64)>>
    ELSE <<240 + (c \div 262144), 128 + ((c \div 4096) % 64),
           128 + ((c \div 64) % 64), 128 + (c % 64)>>

RECURSIVE encode(_)
encode(text) ==
    IF text = <<>> THEN <<>>
    ELSE encode_char(Head(text)) \o encode(Tail(text))

(* Group.get_sepa_file: the bytes of the buffer, "" without message.       *)
get_sepa_file ==
    IF sepa_message # <<>> THEN encode(sepa_message) ELSE <<>>

(* Group.get_sepa_filename: rec_name + '.xml'.                             *)
get_sepa_filename == rec_name \o <<46, 120, 109, 108>>

-----------------------------------------------------------------------------
(* Specifications *)

(* The group a run processes: its direction, its journal's flavors and    *)
(* the parties of its payments.                                            *)
GroupInputs ==
    { [kind |-> "receivable", payable |-> "None",
       receivable |-> "pain.008.001.02", parties |-> AllOfOne],
      [kind |-> "receivable", payable |-> "None",
       receivable |-> "pain.008.001.02", parties |-> OneFirst],
      [kind |-> "receivable", payable |-> "None",
       receivable |-> "pain.008.001.02", parties |-> TwoFirst],
      [kind |-> "receivable", payable |-> "pain.001.001.03",
       receivable |-> "None", parties |-> OneFirst],
      [kind |-> "payable", payable |-> "pain.001.001.03",
       receivable |-> "None", parties |-> AllOfOne],
      [kind |-> "payable", payable |-> "None",
       receivable |-> "pain.008.001.02", parties |-> AllOfOne] }

(* Nothing entered yet but the payments and the group they are in.         *)
Start(groups) ==
    /\ next_id = 1
    /\ mandate = <<>>
    /\ sepa_mandate = [p \in Payments |-> None]
    /\ \E g \in groups :
          /\ payment_party = g.parties
          /\ kind = g.kind
          /\ sepa_payable_flavor = g.payable
          /\ sepa_receivable_flavor = g.receivable
    /\ sepa_message = <<>>
    /\ error = ""
    /\ error_arg = None
    /\ written = {}

Init == Start(GroupInputs)

AccountNumbers == {None, 1}
Identifications == {<<>>, <<77, 49>>}
SignatureDates == {None, 1}

(* A mandate of either type entered with all of its fields filled in.      *)
CreateComplete ==
    \E type \in Types : create(MandateParty(next_id), type, 1, <<77, 49>>, 1)

(* A mandate of the default type entered with any of its fields left empty.*)
CreateAny ==
    \E a \in AccountNumbers, i \in Identifications, d \in SignatureDates :
        create(MandateParty(next_id), default_type, a, i, d)

WriteField ==
    \E m \in MandateIds :
        \/ \E v \in AccountNumbers : write(m, "account_number", v)
        \/ \E v \in Identifications : write(m, "identification", v)
        \/ \E v \in SignatureDates : write(m, "signature_date", v)

Draft == \E m \in MandateIds : draft(m)
Request == \E m \in MandateIds : request(m)
ValidateMandate == \E m \in MandateIds : validate_mandate(m)
Cancel == \E m \in MandateIds : cancel(m)
Delete == \E ms \in SUBSET MandateIds : delete(ms)
WriteSepaMandate ==
    \E p \in Payments, m \in {None} \cup MandateIds : write_sepa_mandate(p, m)
Process == process_sepa

(* Mandates, payments and the processing of the group.                     *)
Next ==
    \/ CreateComplete
    \/ Draft
    \/ Request
    \/ ValidateMandate
    \/ Cancel
    \/ Delete
    \/ WriteSepaMandate
    \/ Process

Spec == Init /\ [][Next]_vars

(* The mandate form: every field can be edited, left empty or cleared.     *)
NextMandate ==
    \/ CreateAny
    \/ WriteField
    \/ Draft
    \/ Request
    \/ ValidateMandate
    \/ Cancel
    \/ Delete

InitMandate ==
    Start({[kind |-> "receivable", payable |-> "None",
            receivable |-> "pain.008.001.02", parties |-> AllOfOne]})

SpecMandate == InitMandate /\ [][NextMandate]_vars

-----------------------------------------------------------------------------
(* Properties *)

Linked(m) == { p \in Payments : sepa_mandate[p] = m }

(* The mandates of the party of payment p, and the first valid one.        *)
MandatesFor(p) == { m \in Live : mandate[m].party = payment_party[p] }

IsFirstValid(p, m) ==
    /\ m \in MandatesFor(p)
    /\ is_valid(m)
    /\ \A o \in MandatesFor(p) : o < m => ~is_valid(o)

(* The payments process looks a mandate up for, and those it finds none for.*)
Pending == { p \in Payments : sepa_mandate[p] = None }
Stuck == { p \in Pending : \A m \in MandatesFor(p) : ~is_valid(m) }
FirstStuck == CHOOSE p \in Stuck : \A q \in Stuck : p <= q

(* The five changes of state the workflow has.                             *)
C1_StepPairs ==
    { <<"draft", "requested">>, <<"requested", "validated">>,
      <<"requested", "draft">>, <<"requested", "canceled">>,
      <<"validated", "canceled">> }

(* C1: a mandate is created in state draft, and every change of a          *)
(* mandate's state is one of draft->requested, requested->validated,       *)
(* requested->draft, requested->canceled, validated->canceled; so canceled *)
(* is never left and validated is left only for canceled.                  *)
C1_Transitions ==
    [][\A m \in MandateIds :
          /\ (m \notin Live /\ m \in Live') => mandate'[m].state = "draft"
          /\ (m \in Live /\ m \in Live') =>
                /\ mandate'[m].state # mandate[m].state =>
                      <<mandate[m].state, mandate'[m].state>> \in C1_StepPairs
                /\ mandate[m].state = "canceled" =>
                      mandate'[m].state = "canceled"
                /\ mandate[m].state = "validated" =>
                      mandate'[m].state \in {"validated", "canceled"}]_vars

(* Both ends of the workflow are reached: a canceled mandate beside a      *)
(* validated one.                                                          *)
C1_Witness ==
    /\ \E m \in Live : mandate[m].state = "canceled"
    /\ \E m \in Live : mandate[m].state = "validated"

(* C2: is_valid is true iff the state is validated and the type is not     *)
(* one-off or no payment is linked to the mandate.                         *)
C2_IsValid ==
    \A m \in Live :
        is_valid(m) <=>
            /\ mandate[m].state = "validated"
            /\ mandate[m].type # "one-off" \/ Linked(m) = {}

(* C3: when process completes on a receivable group, every payment that    *)
(* had no mandate before the call is linked to the first mandate of its    *)
(* party, in id order, for which is_valid held when the call started.      *)
C3_FirstValid ==
    [][(kind = "receivable" /\ error' = "" /\ process_sepa) =>
          \A p \in Pending : IsFirstValid(p, sepa_mandate'[p])]_vars

(* A processed receivable group with a payment on the first of two         *)
(* validated mandates of its party.                                        *)
C3_Witness ==
    /\ kind = "receivable"
    /\ sepa_message # <<>>
    /\ error = ""
    /\ \E p \in written, m \in Live, o \in Live :
          /\ sepa_mandate[p] = m
          /\ m < o
          /\ mandate[o].party = mandate[m].party
          /\ is_valid(m)
          /\ is_valid(o)

C5_NoMandate ==
    [][(kind = "receivable" /\ Stuck # {} /\ process_sepa) =>
          /\ error' = "no_mandate"
          /\ error_arg' = FirstStuck
          /\ \A p \in Payments :
                /\ (p \in Pending /\ p < FirstStuck) =>
                      IsFirstValid(p, sepa_mandate'[p])
                /\ (p \notin Pending \/ p >= FirstStuck) =>
                      sepa_mandate'[p] = sepa_mandate[p]
          /\ sepa_message' = sepa_message]_vars

(* The call failed on the second payment after it linked the first one.    *)
C5_Witness ==
    /\ error = "no_mandate"
    /\ error_arg = 2
    /\ written = {1}
    /\ sepa_mandate[1] # None
    /\ sepa_mandate[2] = None
    /\ sepa_message = <<>>

(* C6 as stated: deleting a validated or requested mandate fails and the   *)
(* mandate stays; deleting a draft or canceled mandate succeeds and the    *)
(* mandate is gone.                                                        *)
C6_DeleteByState ==
    [][\A m \in Live :
          delete({m}) =>
              IF mandate[m].state \in {"validated", "requested"}
              THEN error' = "delete_draft_canceled" /\ m \in Live'
              ELSE error' = "" /\ m \notin Live']_vars

(* C6 amended: a delete of mandates of which one is validated or requested *)
(* fails with the validation error and deletes none; a delete of draft and *)
(* canceled mandates that no payment links to succeeds and they are gone;  *)
(* if a payment links to one of them the delete is blocked by the          *)
(* restriction of the link and deletes none.  (A delete raises or removes  *)
(* records, so only such steps are looked at.)                             *)
C6_DeleteGuard ==
    [][(error' # "" \/ Live' # Live) =>
       \A ms \in SUBSET Live :
          delete(ms) =>
              IF \E m \in ms : mandate[m].state \in {"validated", "requested"}
              THEN error' = "delete_draft_canceled" /\ Live' = Live
              ELSE IF \E m \in ms : Linked(m) # {}
              THEN error' = "foreign_key_restrict" /\ Live' = Live
              ELSE error' = "" /\ Live' = Live \ ms]_vars

(* A refused delete after an earlier delete went through.                  *)
C6_Witness ==
    /\ error = "delete_draft_canceled"
    /\ \E m \in 1..(next_id - 1) : m \notin Live

(* C7: sequence_type is OOFF for a one-off mandate; for a recurrent one it *)
(* is FRST with exactly one linked payment and RCUR with any other number; *)
(* it is never FNAL.                                                       *)
C7_SequenceType ==
    \A m \in Live :
        /\ mandate[m].type = "one-off" => sequence_type(m) = "OOFF"
        /\ (mandate[m].type = "recurrent" /\ Cardinality(Linked(m)) = 1) =>
              sequence_type(m) = "FRST"
        /\ (mandate[m].type = "recurrent" /\ Cardinality(Linked(m)) # 1) =>
              sequence_type(m) = "RCUR"
        /\ sequence_type(m) # "FNAL"

(* A recurrent mandate with two payments beside a one-off mandate with one.*)
C7_Witness ==
    \E m \in Live, o \in Live :
        /\ mandate[m].type = "recurrent"
        /\ Cardinality(Linked(m)) = 2
        /\ sequence_type(m) = "RCUR"
        /\ mandate[o].type = "one-off"
        /\ sequence_type(o) = "OOFF"

(* The journal has no flavor for the direction of the group.               *)
NoFlavor ==
    \/ kind = "payable" /\ sepa_payable_flavor = "None"
    \/ kind = "receivable" /\ sepa_receivable_flavor = "None"

(* C8: when process runs on a payable or receivable group whose journal    *)
(* has no flavor for that direction, it fails with NotImplementedError and *)
(* no message is stored.                                                   *)
C8_NotImplemented ==
    [][(NoFlavor /\ process_sepa) =>
          /\ error' = "NotImplementedError"
          /\ sepa_message' = sepa_message]_vars

(* UTF-8 read back: the code points of a byte string, <<-1>> if malformed. *)
RECURSIVE Utf8Decode(_)
Utf8Decode(b) ==
    IF b = <<>> THEN <<>>
    ELSE LET h == Head(b)
             n == IF h < 128 THEN 1 ELSE IF h < 192 THEN 0 ELSE IF h < 224 THEN 2
                  ELSE IF h < 240 THEN 3 ELSE IF h < 248 THEN 4 ELSE 0
             cont(i) == b[i] - 128
         IN IF n = 0 \/ Len(b) < n
               \/ \E i \in 2..n : b[i] < 128 \/ b[i] >= 192
            THEN <<-1>>
            ELSE LET c == IF n = 1 THEN h
                          ELSE IF n = 2 THEN (h - 192) * 64 + cont(2)
                          ELSE IF n = 3
                          THEN (h - 224) * 4096 + cont(2) * 64 + cont(3)
                          ELSE (h - 240) * 262144 + cont(2) * 4096
                               + cont(3) * 64 + cont(4)
                 IN <<c>> \o Utf8Decode(SubSeq(b, n + 1, Len(b)))

IsXmlName(name) ==
    /\ Len(name) = Len(rec_name) + 4
    /\ SubSeq(name, 1, Len(rec_name)) = rec_name
    /\ SubSeq(name, Len(rec_name) + 1, Len(name)) = <<46, 120, 109, 108>>

C10_Required ==
    \A m \in Live :
        mandate[m].state = "validated" =>
            /\ mandate[m].account_number # None
            /\ mandate[m].identification # <<>>
            /\ mandate[m].signature_date # None

(* A write or a validate_mandate was refused beside a validated mandate.   *)
C10_Witness ==
    /\ error = "required_validation"
    /\ \E m \in Live : mandate[m].state = "validated"
    /\ \E m \in Live : mandate[m].state = "requested"
                       /\ mandate[m].signature_date = None

====
